---- MODULE Spec2Model ----
\* Verification model of the vibration-detect pipeline: VibrationDetector,
\* SignalProcessor, DataLogger and the monitoring loop of app.py.
EXTENDS Integers, Sequences, FiniteSets, TLC

\* ---------------------------------------------------------------- bounds
\* Spec: threads started, ticks begun, configuration calls
MaxThreads == 2
MaxTicks == 1
MaxConfigCalls == 1
\* SpecUI: clicks on Start, ticks begun, script runs that apply the sidebar
MaxClicks == 2
MaxUiTicks == 2
MaxReruns == 1
\* SpecTick: the same, within fewer threads, ticks and configuration calls
MaxTickThreads == 1
MaxTickTicks == 1
MaxTickCalls == 1
\* SpecProc: direct calls on the detector and the processor
MaxCalls == 6
\* SpecSignal: direct calls on the processor's filter and pipeline
MaxSignalCalls == 5
\* SpecScenario: ticks run one after another, configuration calls
MaxScenarioTicks == 3
MaxScenarioCalls == 2
\* SpecLog: direct calls on the logger
MaxLogCalls == 4
\* SpecRace: threads started, ticks begun, set_smoothing_window calls
MaxRaceThreads == 1
MaxRaceTicks == 2
MaxRaceCalls == 1
\* SpecRestart: threads started, ticks begun
MaxRestartThreads == 2
MaxRestartTicks == 2

\* ------------------------------------------------------ exact arithmetic
\* Floats are modelled as exact rationals [n, d] in lowest terms (d > 0);
\* d = 0 is NaN (numpy's mean of an empty list).  A magnitude np.sqrt(q) is
\* kept as the record [sq |-> q], the non-negative root of q.
RECURSIVE GCD(_, _)
GCD(a, b) == IF b = 0 THEN a ELSE GCD(b, a % b)

Abs(i) == IF i < 0 THEN -i ELSE i

NaN == [n |-> 0, d |-> 0]

IsNaN(q) == q.d = 0

Rat(n, d) ==
    IF d = 0 THEN NaN
    ELSE LET s == IF d < 0 THEN -1 ELSE 1
             g == GCD(Abs(n), Abs(d))
         IN [n |-> (s * n) \div g, d |-> (s * d) \div g]

Int2Rat(i) == [n |-> i, d |-> 1]

RAdd(a, b) == IF IsNaN(a) \/ IsNaN(b) THEN NaN ELSE Rat(a.n * b.d + b.n * a.d, a.d * b.d)

RMul(a, b) == IF IsNaN(a) \/ IsNaN(b) THEN NaN ELSE Rat(a.n * b.n, a.d * b.d)

RSquare(a) == RMul(a, a)

\* a < b on floats; every comparison with NaN is false
RLess(a, b) == ~IsNaN(a) /\ ~IsNaN(b) /\ a.n * b.d < b.n * a.d

\* a == b on floats; nan equals nothing, itself included
FloatEq(a, b) == ~IsNaN(a) /\ ~IsNaN(b) /\ a = b

Sqrt(q) == [sq |-> q]

\* np.sqrt(x**2 + y**2 + z**2)
Norm(x, y, z) == Sqrt(RAdd(RAdd(RSquare(x), RSquare(y)), RSquare(z)))

\* magnitude > t, for a magnitude [sq |-> q] (a non-negative root) and a float t
MagGreater(m, t) ==
    /\ ~IsNaN(m.sq)
    /\ ~IsNaN(t)
    /\ (t.n < 0 \/ RLess(RSquare(t), m.sq))

\* magnitude <= t
MagLeq(m, t) ==
    /\ ~IsNaN(m.sq)
    /\ ~IsNaN(t)
    /\ t.n >= 0
    /\ ~RLess(RSquare(t), m.sq)

RECURSIVE SumSeq(_)
SumSeq(s) == IF s = <<>> THEN Int2Rat(0) ELSE RAdd(Head(s), SumSeq(Tail(s)))

\* np.mean(list(buffer)); nan for an empty list
Mean(s) == IF s = <<>> THEN NaN ELSE RMul(SumSeq(s), Rat(1, Len(s)))

\* ----------------------------------------------------- collections.deque
LastN(s, k) == IF Len(s) <= k THEN s ELSE SubSeq(s, Len(s) - k + 1, Len(s))

\* deque(iterable, maxlen): keeps the last maxlen items (maxlen >= 0)
Deque(list, maxlen) == [items |-> LastN(list, maxlen), maxlen |-> maxlen]

DequeAppend(dq, v) == [dq EXCEPT !.items = LastN(Append(dq.items, v), dq.maxlen)]

\* ------------------------------------------------------------- inputs
\* Ambient-plus-spike signal of one reading before the sensitivity scaling
\* (the sinusoids and random draws of get_vibration_reading).
SourceSamples ==
    { [x |-> Int2Rat(0), y |-> Int2Rat(0), z |-> Int2Rat(0)],
      [x |-> Int2Rat(2), y |-> Int2Rat(1), z |-> Int2Rat(2)] }

SensitivityLevels == {"Low", "Medium", "High"}

SensitivityInputs == SensitivityLevels \cup {"Extreme"}

ThresholdInputs == {Int2Rat(3), Int2Rat(0), Int2Rat(-1)}

WindowInputs == {-1, 0, 1, 2}

None == [none |-> TRUE]

\* ------------------------------------------------------------- state
VARIABLES
    threshold, sensitivity,                      \* VibrationDetector
    filter_enabled, smoothing_window,            \* SignalProcessor
    history_buffer, x_buffer, y_buffer, z_buffer, magnitude_buffer,
    use_database, mem_data, table,               \* DataLogger (_data, vibration_data)
    monitoring, alert_history,                   \* st.session_state
    pc, raw_data, processed_data, alert_triggered, log_entry,  \* monitoring_loop threads
    clock,                                       \* wall clock; it advances between readings
    spawned, ticks, config_calls,                \* counters the bounds cap
    after_stop,                                  \* add_entry calls since the last stop_monitoring
    last, calls,                                 \* outcome of the last direct call, and their number
    filtered_data,                               \* process_signal's local, per thread
    setter                                       \* the set_smoothing_window call in progress

detector_vars == <<threshold, sensitivity>>

processor_vars == <<filter_enabled, smoothing_window, history_buffer,
                    x_buffer, y_buffer, z_buffer, magnitude_buffer>>

logger_vars == <<use_database, mem_data, table>>

thread_vars == <<pc, raw_data, processed_data, alert_triggered, log_entry>>

app_vars == <<monitoring, alert_history, spawned, ticks, config_calls, after_stop>>

race_vars == <<filtered_data, setter>>

unit_vars == <<last, calls, race_vars>>

vars == <<detector_vars, processor_vars, logger_vars, thread_vars, app_vars, clock, unit_vars>>

Max(a, b) == IF a > b THEN a ELSE b

Threads == 1..Max(MaxThreads, Max(MaxClicks, MaxTickThreads))

\* ------------------------------------------------ VibrationDetector
default_threshold == 2

sensitivity_multipliers == [Low |-> Rat(7, 10), Medium |-> Rat(1, 1), High |-> Rat(13, 10)]

\* get_vibration_reading, given the unscaled signal and the wall clock; the
\* caller has checked that the sensitivity is a key of the multipliers
get_vibration_reading(sample, sens, now) ==
    LET f == sensitivity_multipliers[sens]
        x == RMul(sample.x, f)
        y == RMul(sample.y, f)
        z == RMul(sample.z, f)
    IN [timestamp |-> now, x |-> x, y |-> y, z |-> z, magnitude |-> Norm(x, y, z)]

\* a comparison that also fires at equality
check_threshold_or_equal(magnitude, thr) ==
    /\ ~IsNaN(magnitude.sq)
    /\ ~IsNaN(thr)
    /\ (thr.n < 0 \/ ~RLess(magnitude.sq, RSquare(thr)))

check_threshold(magnitude, thr) == MagGreater(magnitude, thr)

\* --------------------------------------------------- SignalProcessor
default_smoothing_window == 5

history_maxlen == 100

filter_order == 4

\* scipy.signal.filtfilt pads each end with 3 * max(len(a), len(b)) samples
\* and raises ValueError unless the input is longer than that
filtfilt_padlen == 3 * (filter_order + 1)

\* values the last sample of a zero-phase filtered axis can take
FilterOutputs == {Int2Rat(0), Int2Rat(1)}

\* an append to the history made on every call, the filter disabled or not
noise_filter_history_always(hist, data, enabled) == DequeAppend(hist, data)

\* a filter that runs on any history, however short, and never fails
noise_filter_results_unguarded(hist, data, enabled) ==
    IF ~enabled THEN {data}
    ELSE { [timestamp |-> data.timestamp, x |-> fx, y |-> fy, z |-> fz,
            magnitude |-> Norm(fx, fy, fz)] :
           fx \in FilterOutputs, fy \in FilterOutputs, fz \in FilterOutputs }

\* an append placed after the length test: a short history never grows
noise_filter_history_after_test(hist, data, enabled) ==
    IF enabled /\ Len(hist.items) >= filter_order + 1 THEN DequeAppend(hist, data) ELSE hist

\* history_buffer after apply_noise_filter(data)
noise_filter_history(hist, data, enabled) ==
    IF enabled THEN DequeAppend(hist, data) ELSE hist

\* the readings apply_noise_filter(data) can return, hist being the history
\* after the call
noise_filter_results(hist, data, enabled) ==
    IF ~enabled THEN {data}
    ELSE IF Len(hist.items) < filter_order + 1 THEN {data}
    ELSE IF Len(hist.items) <= filtfilt_padlen THEN {data}
    ELSE { [timestamp |-> data.timestamp, x |-> fx, y |-> fy, z |-> fz,
            magnitude |-> Norm(fx, fy, fz)] :
           fx \in FilterOutputs, fy \in FilterOutputs, fz \in FilterOutputs }

\* apply_noise_filter reaches its try block: enabled, and the history (after
\* the append) holds at least filter_order + 1 readings
noise_filter_attempts(hist, enabled) ==
    enabled /\ Len(hist.items) >= filter_order + 1

\* signal.filtfilt raises ValueError: the axis is not longer than the padding
filtfilt_raises(values) == Len(values) <= filtfilt_padlen

\* a try block whose ValueError reaches the caller
noise_filter_raises_uncaught(hist, enabled) ==
    noise_filter_attempts(hist, enabled) /\ filtfilt_raises(hist.items)

\* apply_noise_filter raises: never, except Exception returns the input
noise_filter_raises(hist, enabled) == FALSE

\* reset_buffers: the five clear() calls
reset_buffers ==
    /\ history_buffer' = [history_buffer EXCEPT !.items = <<>>]
    /\ x_buffer' = [x_buffer EXCEPT !.items = <<>>]
    /\ y_buffer' = [y_buffer EXCEPT !.items = <<>>]
    /\ z_buffer' = [z_buffer EXCEPT !.items = <<>>]
    /\ magnitude_buffer' = [magnitude_buffer EXCEPT !.items = <<>>]

\* a smoothing that keeps the incoming magnitude beside the smoothed axes
smoothed_reading_keeps_magnitude(data, xb, yb, zb) ==
    [timestamp |-> data.timestamp, x |-> Mean(xb.items), y |-> Mean(yb.items),
     z |-> Mean(zb.items), magnitude |-> data.magnitude]

\* the reading apply_smoothing(data) returns, xb, yb, zb being the buffers
\* after the three appends
smoothed_reading(data, xb, yb, zb) ==
    LET sx == Mean(xb.items)
        sy == Mean(yb.items)
        sz == Mean(zb.items)
    IN [timestamp |-> data.timestamp, x |-> sx, y |-> sy, z |-> sz,
        magnitude |-> Norm(sx, sy, sz)]

\* apply_smoothing: the three appends; it returns
\* smoothed_reading(data, x_buffer', y_buffer', z_buffer')
apply_smoothing(data) ==
    /\ x_buffer' = DequeAppend(x_buffer, data.x)
    /\ y_buffer' = DequeAppend(y_buffer, data.y)
    /\ z_buffer' = DequeAppend(z_buffer, data.z)

set_filter_enabled(enabled) == filter_enabled' = enabled

\* a resize that rebuilds each buffer from its oldest samples
set_smoothing_window_keeps_oldest(window_size) ==
    /\ smoothing_window' = window_size
    /\ IF window_size < 0
       THEN UNCHANGED <<x_buffer, y_buffer, z_buffer, magnitude_buffer>>
       ELSE LET FirstN(q, k) == IF Len(q) <= k THEN q ELSE SubSeq(q, 1, k)
            IN /\ x_buffer' = [items |-> FirstN(x_buffer.items, window_size),
                               maxlen |-> window_size]
               /\ y_buffer' = [items |-> FirstN(y_buffer.items, window_size),
                               maxlen |-> window_size]
               /\ z_buffer' = [items |-> FirstN(z_buffer.items, window_size),
                               maxlen |-> window_size]
               /\ magnitude_buffer' = [items |-> FirstN(magnitude_buffer.items, window_size),
                                       maxlen |-> window_size]

\* a resize that assigns the field and leaves the buffers at their capacity
set_smoothing_window_field_only(window_size) ==
    /\ smoothing_window' = window_size
    /\ UNCHANGED <<x_buffer, y_buffer, z_buffer, magnitude_buffer>>

\* set_smoothing_window: the field is assigned first; deque() raises ValueError
\* for a negative maxlen, at the first buffer, and nothing is rebuilt
set_smoothing_window(window_size) ==
    /\ smoothing_window' = window_size
    /\ IF window_size < 0
       THEN UNCHANGED <<x_buffer, y_buffer, z_buffer, magnitude_buffer>>
       ELSE /\ x_buffer' = Deque(x_buffer.items, window_size)
            /\ y_buffer' = Deque(y_buffer.items, window_size)
            /\ z_buffer' = Deque(z_buffer.items, window_size)
            /\ magnitude_buffer' = Deque(magnitude_buffer.items, window_size)

set_smoothing_window_raises(window_size) == window_size < 0

set_threshold(t) == threshold' = t

set_sensitivity(s) == sensitivity' = s

\* -------------------------------------------------------- DataLogger
max_data_points == 50000

\* __init__ returns from its except branch before max_data_points is assigned:
\* the attribute exists exactly in database mode
max_data_points_set == use_database

\* the VibrationData row add_entry builds from an entry
db_entry(entry) ==
    [timestamp |-> entry.timestamp, sensor_id |-> "sensor_1",
     raw_magnitude |-> entry.raw_magnitude,
     processed_magnitude |-> entry.processed_magnitude,
     x_axis |-> entry.x_axis, y_axis |-> entry.y_axis, z_axis |-> entry.z_axis,
     alert |-> entry.alert, threshold_used |-> entry.threshold_used,
     sensitivity_level |-> entry.sensitivity_level,
     filter_enabled |-> entry.filter_enabled]

\* rows left once the k oldest (by timestamp) are deleted
RECURSIVE delete_oldest(_, _)
delete_oldest(rows, k) ==
    IF k <= 0 \/ rows = <<>> THEN rows
    ELSE LET i == CHOOSE i \in 1..Len(rows) :
                      \A j \in 1..Len(rows) :
                          rows[i].timestamp < rows[j].timestamp
                          \/ (rows[i].timestamp = rows[j].timestamp /\ i <= j)
         IN delete_oldest(SubSeq(rows, 1, i - 1) \o SubSeq(rows, i + 1, Len(rows)), k - 1)

\* the table after a committed add_entry, old rows beyond the limit deleted
table_after_add(rows, row) ==
    LET added == Append(rows, row)
    IN IF Len(added) > max_data_points
       THEN delete_oldest(added, Len(added) - max_data_points)
       ELSE added

\* add_entry raises: the in-memory branch reads self.max_data_points
add_entry_raises == ~use_database /\ ~max_data_points_set

\* add_entry as a step.  In-memory mode appends and then compares with the
\* limit; database mode commits the row, or fails inside its try block and
\* logs the error
add_entry(entry) ==
    /\ IF ~use_database
       THEN /\ mem_data' = IF max_data_points_set
                           THEN LastN(Append(mem_data, entry), max_data_points)
                           ELSE Append(mem_data, entry)
            /\ UNCHANGED table
       ELSE /\ \E committed \in BOOLEAN :
                   table' = IF committed THEN table_after_add(table, db_entry(entry))
                            ELSE table
            /\ UNCHANGED mem_data
    /\ UNCHANGED use_database

\* clear_data: in-memory mode empties the list; database mode deletes every
\* row, or fails inside its try block and logs the error
clear_data ==
    /\ IF ~use_database
       THEN mem_data' = <<>> /\ UNCHANGED table
       ELSE /\ \E committed \in BOOLEAN : table' = IF committed THEN <<>> ELSE table
            /\ UNCHANGED mem_data
    /\ UNCHANGED use_database

\* records the Sink holds
sink_records == IF use_database THEN table ELSE mem_data

\* Python's s[start:] on a list
SliceFrom(s, start) ==
    LET n == Len(s)
        b == IF start < 0 THEN (IF n + start < 0 THEN 0 ELSE n + start)
             ELSE (IF start > n THEN n ELSE start)
    IN SubSeq(s, b + 1, n)

\* ORDER BY timestamp: the rows by ascending timestamp, ties in table order
RECURSIVE order_by_timestamp(_)
order_by_timestamp(rows) ==
    IF rows = <<>> THEN <<>>
    ELSE LET i == CHOOSE i \in 1..Len(rows) :
                      \A j \in 1..Len(rows) :
                          rows[i].timestamp < rows[j].timestamp
                          \/ (rows[i].timestamp = rows[j].timestamp /\ i <= j)
         IN <<rows[i]>> \o order_by_timestamp(SubSeq(rows, 1, i - 1) \o SubSeq(rows, i + 1, Len(rows)))

\* the dictionary get_recent_data builds from a row
record_dict(row) ==
    [timestamp |-> row.timestamp, raw_magnitude |-> row.raw_magnitude,
     processed_magnitude |-> row.processed_magnitude,
     x_axis |-> row.x_axis, y_axis |-> row.y_axis, z_axis |-> row.z_axis,
     alert |-> row.alert, sensor_id |-> row.sensor_id]

\* the query of get_recent_data: ORDER BY timestamp DESC LIMIT count, then
\* reversed(records), each row converted (count >= 0)
recent_rows(rows, count) ==
    LET newest == LastN(order_by_timestamp(rows), count)
    IN [i \in 1..Len(newest) |-> record_dict(newest[i])]

\* the lists get_recent_data(count) can return: in-memory mode slices _data;
\* database mode returns the converted rows, or [] when the query fails inside
\* its try block
get_recent_data(count) ==
    IF ~use_database
    THEN { IF Len(mem_data) >= count THEN SliceFrom(mem_data, -count) ELSE mem_data }
    ELSE { recent_rows(table, count), <<>> }

\* ------------------------------------------------------------ app.py
TickPcs == {"read", "process", "check", "entry", "add", "alert"}

LivePcs == TickPcs \cup {"loop"}

LiveWorkers == {w \in Threads : pc[w] \in LivePcs}

TickingWorkers == {w \in Threads : pc[w] \in TickPcs}

\* a start that clears the processing buffers before the thread runs
start_monitoring_resets ==
    /\ spawned < Cardinality(DOMAIN pc)
    /\ monitoring' = TRUE
    /\ spawned' = spawned + 1
    /\ pc' = [pc EXCEPT ![spawned + 1] = "loop"]
    /\ after_stop' = 0
    /\ reset_buffers
    /\ UNCHANGED <<detector_vars, filter_enabled, smoothing_window, logger_vars,
                   alert_history, raw_data, processed_data, alert_triggered, log_entry,
                   clock, ticks, config_calls, unit_vars>>

\* start_monitoring: sets the flag and starts a new monitoring_loop thread
start_monitoring ==
    /\ spawned < Cardinality(DOMAIN pc)
    /\ monitoring' = TRUE
    /\ spawned' = spawned + 1
    /\ pc' = [pc EXCEPT ![spawned + 1] = "loop"]
    /\ after_stop' = 0
    /\ UNCHANGED <<detector_vars, processor_vars, logger_vars, alert_history,
                   raw_data, processed_data, alert_triggered, log_entry,
                   clock, ticks, config_calls, unit_vars>>

stop_monitoring ==
    /\ monitoring' = FALSE
    /\ after_stop' = 0
    /\ UNCHANGED <<detector_vars, processor_vars, logger_vars, alert_history,
                   thread_vars, clock, spawned, ticks, config_calls, unit_vars>>

\* the Start button of main() is disabled while monitoring
StartButton == ~monitoring /\ start_monitoring

\* the Stop button of main() is disabled while not monitoring
StopButton == monitoring /\ stop_monitoring

\* the Clear History button of main()
ClearHistory ==
    /\ clear_data
    /\ alert_history' = <<>>
    /\ UNCHANGED <<detector_vars, processor_vars, thread_vars, monitoring,
                   spawned, ticks, config_calls, after_stop, clock, unit_vars>>

\* while st.session_state.monitoring: (after the sleep of the previous tick)
LoopTest(w) ==
    /\ pc[w] = "loop"
    /\ IF monitoring
       THEN /\ ticks' = ticks + 1
            /\ pc' = [pc EXCEPT ![w] = "read"]
       ELSE /\ pc' = [pc EXCEPT ![w] = "done"]
            /\ UNCHANGED ticks
    /\ UNCHANGED <<detector_vars, processor_vars, logger_vars, monitoring, alert_history,
                   raw_data, processed_data, alert_triggered, log_entry,
                   clock, spawned, config_calls, after_stop, unit_vars>>

\* raw_data = detector.get_vibration_reading(); KeyError ends the thread when
\* the sensitivity is no key of sensitivity_multipliers
ReadSensor(w) ==
    /\ pc[w] = "read"
    /\ IF sensitivity \in DOMAIN sensitivity_multipliers
       THEN /\ \E sample \in SourceSamples :
                   raw_data' = [raw_data EXCEPT
                                   ![w] = get_vibration_reading(sample, sensitivity, clock)]
            /\ clock' = clock + 1
            /\ pc' = [pc EXCEPT ![w] = "process"]
       ELSE /\ pc' = [pc EXCEPT ![w] = "KeyError"]
            /\ UNCHANGED <<raw_data, clock>>
    /\ UNCHANGED <<detector_vars, processor_vars, logger_vars, app_vars,
                   processed_data, alert_triggered, log_entry, unit_vars>>

\* processed_data = processor.process_signal(raw_data)
ProcessSignal(w) ==
    /\ pc[w] = "process"
    /\ history_buffer' = noise_filter_history(history_buffer, raw_data[w], filter_enabled)
    /\ \E filtered \in noise_filter_results(history_buffer', raw_data[w], filter_enabled) :
           /\ apply_smoothing(filtered)
           /\ processed_data' = [processed_data EXCEPT
                                    ![w] = smoothed_reading(filtered, x_buffer', y_buffer', z_buffer')]
    /\ pc' = [pc EXCEPT ![w] = "check"]
    /\ UNCHANGED <<detector_vars, filter_enabled, smoothing_window, magnitude_buffer,
                   logger_vars, app_vars, raw_data, alert_triggered, log_entry,
                   clock, unit_vars>>

\* alert_triggered = detector.check_threshold(processed_data['magnitude'])
CheckAlert(w) ==
    /\ pc[w] = "check"
    /\ alert_triggered' = [alert_triggered EXCEPT
                              ![w] = check_threshold(processed_data[w].magnitude, threshold)]
    /\ pc' = [pc EXCEPT ![w] = "entry"]
    /\ UNCHANGED <<detector_vars, processor_vars, logger_vars, app_vars,
                   raw_data, processed_data, log_entry, clock, unit_vars>>

\* the log_entry dict of monitoring_loop
make_log_entry(raw, processed, alert, now) ==
    [timestamp |-> now,
     raw_magnitude |-> raw.magnitude,
     processed_magnitude |-> processed.magnitude,
     x_axis |-> processed.x, y_axis |-> processed.y, z_axis |-> processed.z,
     alert |-> alert,
     threshold_used |-> threshold,
     sensitivity_level |-> sensitivity,
     filter_enabled |-> filter_enabled]

BuildEntry(w) ==
    /\ pc[w] = "entry"
    /\ log_entry' = [log_entry EXCEPT
                        ![w] = make_log_entry(raw_data[w], processed_data[w],
                                              alert_triggered[w], clock)]
    /\ pc' = [pc EXCEPT ![w] = "add"]
    /\ UNCHANGED <<detector_vars, processor_vars, logger_vars, app_vars,
                   raw_data, processed_data, alert_triggered, clock, unit_vars>>

\* st.session_state.logger.add_entry(log_entry); an exception it lets through
\* ends the thread
LogEntry(w) ==
    /\ pc[w] = "add"
    /\ add_entry(log_entry[w])
    /\ pc' = [pc EXCEPT ![w] = IF add_entry_raises THEN "AttributeError" ELSE "alert"]
    /\ after_stop' = IF monitoring THEN after_stop ELSE after_stop + 1
    /\ UNCHANGED <<detector_vars, processor_vars, monitoring, alert_history,
                   raw_data, processed_data, alert_triggered, log_entry,
                   clock, spawned, ticks, config_calls, unit_vars>>

\* the alert_history item of a tick; message carries the two numbers the text shows
alert_event(processed, now) ==
    [timestamp |-> now,
     message |-> [magnitude |-> processed.magnitude, threshold |-> threshold],
     magnitude |-> processed.magnitude]

\* an alert handling that appends an event on every tick
HandleAlertUnconditional(w) ==
    /\ pc[w] = "alert"
    /\ alert_history' = Append(alert_history, alert_event(processed_data[w], clock))
    /\ pc' = [pc EXCEPT ![w] = "loop"]
    /\ UNCHANGED <<detector_vars, processor_vars, logger_vars, monitoring,
                   raw_data, processed_data, alert_triggered, log_entry,
                   clock, spawned, ticks, config_calls, after_stop, unit_vars>>

\* if alert_triggered: alert_history.append(...); then time.sleep(0.5)
HandleAlert(w) ==
    /\ pc[w] = "alert"
    /\ IF alert_triggered[w]
       THEN alert_history' = Append(alert_history, alert_event(processed_data[w], clock))
       ELSE UNCHANGED alert_history
    /\ pc' = [pc EXCEPT ![w] = "loop"]
    /\ UNCHANGED <<detector_vars, processor_vars, logger_vars, monitoring,
                   raw_data, processed_data, alert_triggered, log_entry,
                   clock, spawned, ticks, config_calls, after_stop, unit_vars>>

monitoring_loop(w) ==
    \/ LoopTest(w)
    \/ ReadSensor(w)
    \/ ProcessSignal(w)
    \/ CheckAlert(w)
    \/ BuildEntry(w)
    \/ LogEntry(w)
    \/ HandleAlert(w)

\* ------------------------------------------- configuration surface
\* The control layer calls the setters while the loop runs.
LoopThresholds == {Int2Rat(3)}

LoopSensitivities == {"High", "Extreme"}

LoopWindows == {1}

SetThreshold ==
    /\ \E t \in LoopThresholds : set_threshold(t)
    /\ config_calls' = config_calls + 1
    /\ UNCHANGED <<sensitivity, processor_vars, logger_vars, thread_vars, monitoring,
                   alert_history, spawned, ticks, after_stop, clock, unit_vars>>

SetSensitivity ==
    /\ \E s \in LoopSensitivities : set_sensitivity(s)
    /\ config_calls' = config_calls + 1
    /\ UNCHANGED <<threshold, processor_vars, logger_vars, thread_vars, monitoring,
                   alert_history, spawned, ticks, after_stop, clock, unit_vars>>

SetFilterEnabled ==
    /\ \E b \in BOOLEAN : set_filter_enabled(b)
    /\ config_calls' = config_calls + 1
    /\ UNCHANGED <<detector_vars, smoothing_window, history_buffer, x_buffer, y_buffer,
                   z_buffer, magnitude_buffer, logger_vars, thread_vars, monitoring,
                   alert_history, spawned, ticks, after_stop, clock, unit_vars>>

SetSmoothingWindow ==
    /\ \E n \in LoopWindows : set_smoothing_window(n)
    /\ config_calls' = config_calls + 1
    /\ UNCHANGED <<detector_vars, filter_enabled, history_buffer, logger_vars, thread_vars,
                   monitoring, alert_history, spawned, ticks, after_stop, clock, unit_vars>>

\* main(): every script run applies the four sidebar widgets, whose values are
\* within the sliders' ranges
UiSettings ==
    { [threshold |-> Int2Rat(2), sensitivity |-> "Medium", filter_enabled |-> TRUE, window |-> 5],
      [threshold |-> Int2Rat(3), sensitivity |-> "High", filter_enabled |-> FALSE, window |-> 1] }

Sidebar ==
    /\ \E ui \in UiSettings :
           /\ set_threshold(ui.threshold)
           /\ set_sensitivity(ui.sensitivity)
           /\ set_filter_enabled(ui.filter_enabled)
           /\ set_smoothing_window(ui.window)
    /\ config_calls' = config_calls + 1
    /\ UNCHANGED <<history_buffer, logger_vars, thread_vars, monitoring,
                   alert_history, spawned, ticks, after_stop, clock, unit_vars>>

\* ------------------------------------------------------ specifications
Init ==
    /\ threshold = Int2Rat(default_threshold)
    /\ sensitivity = "Medium"
    /\ filter_enabled = TRUE
    /\ smoothing_window = default_smoothing_window
    /\ history_buffer = Deque(<<>>, history_maxlen)
    /\ x_buffer = Deque(<<>>, default_smoothing_window)
    /\ y_buffer = Deque(<<>>, default_smoothing_window)
    /\ z_buffer = Deque(<<>>, default_smoothing_window)
    /\ magnitude_buffer = Deque(<<>>, default_smoothing_window)
    /\ (use_database = TRUE \/ use_database = FALSE)
    /\ mem_data = <<>>
    /\ table = <<>>
    /\ monitoring = FALSE
    /\ alert_history = <<>>
    /\ pc = [w \in Threads |-> "unborn"]
    /\ raw_data = [w \in Threads |-> None]
    /\ processed_data = [w \in Threads |-> None]
    /\ alert_triggered = [w \in Threads |-> FALSE]
    /\ log_entry = [w \in Threads |-> None]
    /\ clock = 0
    /\ spawned = 0
    /\ ticks = 0
    /\ config_calls = 0
    /\ after_stop = 0
    /\ last = [op |-> "none", arg |-> None, ret |-> None, raised |-> FALSE,
               pre |-> None, threshold_set |-> Int2Rat(default_threshold)]
    /\ calls = 0
    /\ filtered_data = [w \in Threads |-> None]
    /\ setter = [pc |-> "idle", window_size |-> default_smoothing_window, copy |-> <<>>]

\* a thread about to begin a tick does so only within the budget of ticks
TickBudget(w, max) == (pc[w] = "loop" /\ monitoring) => ticks < max

\* the pipeline driven through its functions: start and stop callable at any time
Next ==
    \/ spawned < MaxThreads /\ start_monitoring
    \/ stop_monitoring
    \/ \E w \in Threads : TickBudget(w, MaxTicks) /\ monitoring_loop(w)
    \/ config_calls < MaxConfigCalls /\ SetThreshold
    \/ config_calls < MaxConfigCalls /\ SetSensitivity
    \/ config_calls < MaxConfigCalls /\ SetFilterEnabled
    \/ config_calls < MaxConfigCalls /\ SetSmoothingWindow

Spec == Init /\ [][Next]_vars

\* the pipeline driven through the widgets of main()
NextUI ==
    \/ spawned < MaxClicks /\ StartButton
    \/ StopButton
    \/ \E w \in Threads : TickBudget(w, MaxUiTicks) /\ monitoring_loop(w)
    \/ config_calls < MaxReruns /\ Sidebar
    \/ ClearHistory

SpecUI == Init /\ [][NextUI]_vars

NextTick ==
    \/ spawned < MaxTickThreads /\ start_monitoring
    \/ stop_monitoring
    \/ \E w \in Threads : TickBudget(w, MaxTickTicks) /\ monitoring_loop(w)
    \/ config_calls < MaxTickCalls /\ SetThreshold
    \/ config_calls < MaxTickCalls /\ SetSensitivity
    \/ config_calls < MaxTickCalls /\ SetFilterEnabled
    \/ config_calls < MaxTickCalls /\ SetSmoothingWindow

SpecTick == Init /\ [][NextTick]_vars

\* the pipeline stopped and started again through the two buttons of main(),
\* the sidebar left as it is
NextRestart ==
    \/ spawned < MaxRestartThreads /\ StartButton
    \/ StopButton
    \/ \E w \in Threads : TickBudget(w, MaxRestartTicks) /\ monitoring_loop(w)

SpecRestart == Init /\ [][NextRestart]_vars

\* ------------------------------------------------- direct calls
\* The detector and the processor called directly, one call after another, no
\* monitoring thread running.  last records the call: its argument, what it
\* returned, whether it raised, the configuration and buffers before it, and
\* the argument of the latest set_threshold call.
ProcReading(x, y, z, now) ==
    [timestamp |-> now, x |-> Int2Rat(x), y |-> Int2Rat(y), z |-> Int2Rat(z),
     magnitude |-> Norm(Int2Rat(x), Int2Rat(y), Int2Rat(z))]

\* readings passed to apply_smoothing; the last one carries a magnitude that
\* is not the norm of its axes
ProcReadings(now) ==
    { ProcReading(1, 2, 2, now),
      ProcReading(4, 0, 3, now),
      [ProcReading(1, 0, 0, now) EXCEPT !.magnitude = Sqrt(Int2Rat(4))] }

MagnitudeInputs == {Sqrt(Int2Rat(0)), Sqrt(Rat(9, 4)), Sqrt(Int2Rat(4)), Sqrt(Int2Rat(9))}

ProcSnapshot ==
    [threshold |-> threshold, sensitivity |-> sensitivity,
     smoothing_window |-> smoothing_window,
     x_buffer |-> x_buffer, y_buffer |-> y_buffer, z_buffer |-> z_buffer,
     magnitude_buffer |-> magnitude_buffer]

Called(op, arg, ret, raised) ==
    /\ last' = [op |-> op, arg |-> arg, ret |-> ret, raised |-> raised,
                pre |-> ProcSnapshot,
                threshold_set |-> IF op = "set_threshold" THEN arg ELSE last.threshold_set]
    /\ calls' = calls + 1
    /\ UNCHANGED <<logger_vars, thread_vars, app_vars, clock, race_vars>>

CallSetThreshold ==
    \E t \in ThresholdInputs :
        /\ set_threshold(t)
        /\ Called("set_threshold", t, None, FALSE)
        /\ UNCHANGED <<sensitivity, processor_vars>>

CallSetSensitivity ==
    \E s \in SensitivityInputs :
        /\ set_sensitivity(s)
        /\ Called("set_sensitivity", s, None, FALSE)
        /\ UNCHANGED <<threshold, processor_vars>>

CallSetSmoothingWindow ==
    \E n \in WindowInputs :
        /\ set_smoothing_window(n)
        /\ Called("set_smoothing_window", n, None, set_smoothing_window_raises(n))
        /\ UNCHANGED <<detector_vars, filter_enabled, history_buffer>>

CallCheckThreshold ==
    \E m \in MagnitudeInputs :
        /\ Called("check_threshold", m, check_threshold(m, threshold), FALSE)
        /\ UNCHANGED <<detector_vars, processor_vars>>

CallApplySmoothing ==
    \E data \in ProcReadings(calls) :
        /\ apply_smoothing(data)
        /\ Called("apply_smoothing", data,
                  smoothed_reading(data, x_buffer', y_buffer', z_buffer'), FALSE)
        /\ UNCHANGED <<detector_vars, filter_enabled, smoothing_window, history_buffer,
                       magnitude_buffer>>

NextProc ==
    \/ calls < MaxCalls /\ CallSetThreshold
    \/ calls < MaxCalls /\ CallSetSensitivity
    \/ calls < MaxCalls /\ CallSetSmoothingWindow
    \/ calls < MaxCalls /\ CallCheckThreshold
    \/ calls < MaxCalls /\ CallApplySmoothing

SpecProc == Init /\ [][NextProc]_vars

\* ------------------------------------------- direct calls, the filter
\* The processor called directly: apply_noise_filter, process_signal,
\* reset_buffers and the two setters.  last.pre is the processor before the
\* call.
SignalReadings(now) == {ProcReading(1, 2, 2, now), ProcReading(4, 0, 3, now)}

SignalWindows == {0, 1, 3}

SignalSnapshot ==
    [filter_enabled |-> filter_enabled, smoothing_window |-> smoothing_window,
     history_buffer |-> history_buffer,
     x_buffer |-> x_buffer, y_buffer |-> y_buffer, z_buffer |-> z_buffer,
     magnitude_buffer |-> magnitude_buffer]

SignalCalled(op, arg, ret, raised) ==
    /\ last' = [op |-> op, arg |-> arg, ret |-> ret, raised |-> raised,
                pre |-> SignalSnapshot, threshold_set |-> last.threshold_set]
    /\ calls' = calls + 1
    /\ UNCHANGED <<detector_vars, logger_vars, thread_vars, app_vars, clock, race_vars>>

SignalSetFilterEnabled ==
    \E b \in BOOLEAN :
        /\ set_filter_enabled(b)
        /\ SignalCalled("set_filter_enabled", b, None, FALSE)
        /\ UNCHANGED <<smoothing_window, history_buffer, x_buffer, y_buffer, z_buffer,
                       magnitude_buffer>>

SignalSetSmoothingWindow ==
    \E n \in SignalWindows :
        /\ set_smoothing_window(n)
        /\ SignalCalled("set_smoothing_window", n, None, set_smoothing_window_raises(n))
        /\ UNCHANGED <<filter_enabled, history_buffer>>

SignalResetBuffers ==
    /\ reset_buffers
    /\ SignalCalled("reset_buffers", None, None, FALSE)
    /\ UNCHANGED <<filter_enabled, smoothing_window>>

SignalApplyNoiseFilter ==
    \E data \in SignalReadings(calls) :
        /\ history_buffer' = noise_filter_history(history_buffer, data, filter_enabled)
        /\ \E filtered \in noise_filter_results(history_buffer', data, filter_enabled) :
               SignalCalled("apply_noise_filter", data, filtered,
                            noise_filter_raises(history_buffer', filter_enabled))
        /\ UNCHANGED <<filter_enabled, smoothing_window, x_buffer, y_buffer, z_buffer,
                       magnitude_buffer>>

SignalProcessSignal ==
    \E data \in SignalReadings(calls) :
        /\ history_buffer' = noise_filter_history(history_buffer, data, filter_enabled)
        /\ \E filtered \in noise_filter_results(history_buffer', data, filter_enabled) :
               /\ apply_smoothing(filtered)
               /\ SignalCalled("process_signal", data,
                               smoothed_reading(filtered, x_buffer', y_buffer', z_buffer'),
                               noise_filter_raises(history_buffer', filter_enabled))
        /\ UNCHANGED <<filter_enabled, smoothing_window, magnitude_buffer>>

SignalGetVibrationReading ==
    /\ sensitivity \in DOMAIN sensitivity_multipliers
    /\ \E sample \in SourceSamples :
           SignalCalled("get_vibration_reading", sample,
                        get_vibration_reading(sample, sensitivity, calls), FALSE)
    /\ UNCHANGED processor_vars

NextSignal ==
    \/ calls < MaxSignalCalls /\ SignalGetVibrationReading
    \/ calls < MaxSignalCalls /\ SignalSetFilterEnabled
    \/ calls < MaxSignalCalls /\ SignalSetSmoothingWindow
    \/ calls < MaxSignalCalls /\ SignalResetBuffers
    \/ calls < MaxSignalCalls /\ SignalApplyNoiseFilter
    \/ calls < MaxSignalCalls /\ SignalProcessSignal

SpecSignal == Init /\ [][NextSignal]_vars

\* ------------------------------------------- ticks run in sequence
\* The body of monitoring_loop run by one caller, tick after tick, on a signal
\* source seeded so that the raw magnitudes are 1.0, 2.0, 3.5, 3.5, ...; the
\* direction of each reading is free.  last.ret is the processed reading and
\* the alert flag of the tick.
ScenarioMagnitude(k) == IF k = 1 THEN Int2Rat(1) ELSE IF k = 2 THEN Int2Rat(2) ELSE Rat(7, 2)

ScenarioReadings(k, now) ==
    LET m == ScenarioMagnitude(k)
        neg == RMul(Int2Rat(-1), m)
        zero == Int2Rat(0)
    IN { [timestamp |-> now, x |-> v[1], y |-> v[2], z |-> v[3],
          magnitude |-> Norm(v[1], v[2], v[3])] :
         v \in {<<m, zero, zero>>, <<zero, m, zero>>, <<neg, zero, zero>>} }

ScenarioThresholds == {Int2Rat(2), Int2Rat(1)}

ScenarioWindows == {3, 1}

ScenarioTick ==
    /\ \E raw \in ScenarioReadings(ticks + 1, clock) :
           /\ history_buffer' = noise_filter_history(history_buffer, raw, filter_enabled)
           /\ \E filtered \in noise_filter_results(history_buffer', raw, filter_enabled) :
                  /\ apply_smoothing(filtered)
                  /\ LET processed == smoothed_reading(filtered, x_buffer', y_buffer', z_buffer')
                     IN last' = [op |-> "tick", arg |-> raw,
                                 ret |-> [processed |-> processed,
                                          alert |-> check_threshold(processed.magnitude, threshold)],
                                 raised |-> FALSE, pre |-> SignalSnapshot,
                                 threshold_set |-> last.threshold_set]
    /\ ticks' = ticks + 1
    /\ clock' = clock + 1
    /\ UNCHANGED <<detector_vars, filter_enabled, smoothing_window, magnitude_buffer,
                   logger_vars, thread_vars, monitoring, alert_history, spawned,
                   config_calls, after_stop, calls, race_vars>>

ScenarioConfigured(t, n, b) ==
    /\ set_threshold(t)
    /\ set_smoothing_window(n)
    /\ set_filter_enabled(b)
    /\ last' = [last EXCEPT !.op = "configure", !.threshold_set = t]
    /\ config_calls' = config_calls + 1
    /\ UNCHANGED <<sensitivity, history_buffer, logger_vars, thread_vars, monitoring,
                   alert_history, spawned, ticks, after_stop, clock, calls, race_vars>>

ScenarioConfigure ==
    \E t \in ScenarioThresholds, n \in ScenarioWindows, b \in BOOLEAN :
        ScenarioConfigured(t, n, b)

NextScenario ==
    \/ ticks < MaxScenarioTicks /\ ScenarioTick
    \/ config_calls < MaxScenarioCalls /\ ScenarioConfigure

SpecScenario == Init /\ [][NextScenario]_vars

\* ------------------------------------------- direct calls, the logger
\* The logger called directly: add_entry, get_recent_data, clear_data.
\* last.pre is the Sink before the call.
LogEntries(now) ==
    { make_log_entry(ProcReading(1, 2, 2, now), ProcReading(1, 2, 2, now), alert, now) :
      alert \in BOOLEAN }

RecentCounts == {0, 1, 2, 3}

LogCalled(op, arg, ret, raised) ==
    /\ last' = [op |-> op, arg |-> arg, ret |-> ret, raised |-> raised,
                pre |-> sink_records, threshold_set |-> last.threshold_set]
    /\ calls' = calls + 1
    /\ UNCHANGED <<detector_vars, processor_vars, thread_vars, app_vars, clock, race_vars>>

LogAddEntry ==
    \E entry \in LogEntries(calls) :
        /\ add_entry(entry)
        /\ LogCalled("add_entry", entry, None, add_entry_raises)

LogGetRecentData ==
    \E count \in RecentCounts :
        /\ \E result \in get_recent_data(count) :
               LogCalled("get_recent_data", count, result, FALSE)
        /\ UNCHANGED logger_vars

LogClearData ==
    /\ clear_data
    /\ LogCalled("clear_data", None, None, FALSE)

NextLog ==
    \/ calls < MaxLogCalls /\ LogAddEntry
    \/ calls < MaxLogCalls /\ LogGetRecentData
    \/ calls < MaxLogCalls /\ LogClearData

SpecLog == Init /\ [][NextLog]_vars

\* ------------------------------- apply_smoothing against the setter
\* The worker's process_signal and the control thread's set_smoothing_window,
\* statement by statement.  Each buffer line of set_smoothing_window first
\* evaluates list(self.x_buffer) and later binds the new deque; the worker
\* may run in between.  Each append of apply_smoothing is taken as one step.
RaceWindows == {2, 5}

\* filtered_data = self.apply_noise_filter(raw_data)
RaceFilter(w) ==
    /\ pc[w] = "process"
    /\ history_buffer' = noise_filter_history(history_buffer, raw_data[w], filter_enabled)
    /\ \E filtered \in noise_filter_results(history_buffer', raw_data[w], filter_enabled) :
           filtered_data' = [filtered_data EXCEPT ![w] = filtered]
    /\ pc' = [pc EXCEPT ![w] = "append_x"]
    /\ UNCHANGED <<detector_vars, filter_enabled, smoothing_window, x_buffer, y_buffer,
                   z_buffer, magnitude_buffer, logger_vars, app_vars, raw_data,
                   processed_data, alert_triggered, log_entry, clock, last, calls, setter>>

\* self.x_buffer.append(data['x'])
AppendX(w) ==
    /\ pc[w] = "append_x"
    /\ x_buffer' = DequeAppend(x_buffer, filtered_data[w].x)
    /\ pc' = [pc EXCEPT ![w] = "append_y"]
    /\ UNCHANGED <<detector_vars, filter_enabled, smoothing_window, history_buffer, y_buffer,
                   z_buffer, magnitude_buffer, logger_vars, app_vars, raw_data,
                   processed_data, alert_triggered, log_entry, clock, unit_vars>>

\* self.y_buffer.append(data['y'])
AppendY(w) ==
    /\ pc[w] = "append_y"
    /\ y_buffer' = DequeAppend(y_buffer, filtered_data[w].y)
    /\ pc' = [pc EXCEPT ![w] = "append_z"]
    /\ UNCHANGED <<detector_vars, filter_enabled, smoothing_window, history_buffer, x_buffer,
                   z_buffer, magnitude_buffer, logger_vars, app_vars, raw_data,
                   processed_data, alert_triggered, log_entry, clock, unit_vars>>

\* self.z_buffer.append(data['z'])
AppendZ(w) ==
    /\ pc[w] = "append_z"
    /\ z_buffer' = DequeAppend(z_buffer, filtered_data[w].z)
    /\ pc' = [pc EXCEPT ![w] = "means"]
    /\ UNCHANGED <<detector_vars, filter_enabled, smoothing_window, history_buffer, x_buffer,
                   y_buffer, magnitude_buffer, logger_vars, app_vars, raw_data,
                   processed_data, alert_triggered, log_entry, clock, unit_vars>>

\* the three means, the magnitude and the returned dict
SmoothMeans(w) ==
    /\ pc[w] = "means"
    /\ processed_data' = [processed_data EXCEPT
                             ![w] = smoothed_reading(filtered_data[w], x_buffer, y_buffer, z_buffer)]
    /\ pc' = [pc EXCEPT ![w] = "check"]
    /\ UNCHANGED <<detector_vars, processor_vars, logger_vars, app_vars, raw_data,
                   alert_triggered, log_entry, clock, unit_vars>>

race_loop(w) ==
    \/ LoopTest(w)
    \/ ReadSensor(w)
    \/ RaceFilter(w)
    \/ AppendX(w)
    \/ AppendY(w)
    \/ AppendZ(w)
    \/ SmoothMeans(w)
    \/ CheckAlert(w)
    \/ BuildEntry(w)
    \/ LogEntry(w)
    \/ HandleAlert(w)

\* set_smoothing_window entered: self.smoothing_window = window_size
SetterBegin ==
    /\ setter.pc = "idle"
    /\ \E n \in RaceWindows :
           /\ smoothing_window' = n
           /\ setter' = [pc |-> "copy_x", window_size |-> n, copy |-> <<>>]
    /\ config_calls' = config_calls + 1
    /\ UNCHANGED <<detector_vars, filter_enabled, history_buffer, x_buffer, y_buffer,
                   z_buffer, magnitude_buffer, logger_vars, thread_vars, monitoring,
                   alert_history, spawned, ticks, after_stop, clock, last, calls,
                   filtered_data>>

\* list(self.<buffer>) of the current line
SetterCopy ==
    /\ setter.pc \in {"copy_x", "copy_y", "copy_z", "copy_m"}
    /\ setter' = [setter EXCEPT
                     !.copy = CASE setter.pc = "copy_x" -> x_buffer.items
                                [] setter.pc = "copy_y" -> y_buffer.items
                                [] setter.pc = "copy_z" -> z_buffer.items
                                [] setter.pc = "copy_m" -> magnitude_buffer.items,
                     !.pc = CASE setter.pc = "copy_x" -> "store_x"
                              [] setter.pc = "copy_y" -> "store_y"
                              [] setter.pc = "copy_z" -> "store_z"
                              [] setter.pc = "copy_m" -> "store_m"]
    /\ UNCHANGED <<detector_vars, processor_vars, logger_vars, thread_vars, app_vars,
                   clock, last, calls, filtered_data>>

\* self.<buffer> = deque(<the list>, maxlen=window_size) of the current line
SetterStore ==
    /\ setter.pc \in {"store_x", "store_y", "store_z", "store_m"}
    /\ LET new == Deque(setter.copy, setter.window_size)
       IN /\ x_buffer' = IF setter.pc = "store_x" THEN new ELSE x_buffer
          /\ y_buffer' = IF setter.pc = "store_y" THEN new ELSE y_buffer
          /\ z_buffer' = IF setter.pc = "store_z" THEN new ELSE z_buffer
          /\ magnitude_buffer' = IF setter.pc = "store_m" THEN new ELSE magnitude_buffer
    /\ setter' = [setter EXCEPT
                     !.copy = <<>>,
                     !.pc = CASE setter.pc = "store_x" -> "copy_y"
                              [] setter.pc = "store_y" -> "copy_z"
                              [] setter.pc = "store_z" -> "copy_m"
                              [] setter.pc = "store_m" -> "idle"]
    /\ UNCHANGED <<detector_vars, filter_enabled, smoothing_window, history_buffer,
                   logger_vars, thread_vars, app_vars, clock, last, calls, filtered_data>>

NextRace ==
    \/ spawned < MaxRaceThreads /\ start_monitoring
    \/ \E w \in Threads : TickBudget(w, MaxRaceTicks) /\ race_loop(w)
    \/ config_calls < MaxRaceCalls /\ SetterBegin
    \/ SetterCopy
    \/ SetterStore

SpecRace == Init /\ [][NextRace]_vars

\* ================================================================ claims

\* C1: calling start_monitoring while the pipeline is Running is a no-op: while
\* the monitoring flag is set, no step starts another monitoring_loop thread.
C1_StartWhileRunningIsNoOp == [][monitoring => spawned' = spawned]_vars

\* C2: in every reachable state at most one worker is executing a tick, also
\* when Stop and then Start are clicked before the old worker re-checks the flag.
C2_AtMostOneWorker == Cardinality(TickingWorkers) <= 1

\* C3: once stop_monitoring has returned and start_monitoring is not called
\* again, at most the one tick in flight emits its LogRecord.
C3_AtMostOneEmissionAfterStop == ~monitoring => after_stop <= 1

\* C6: while the monitoring flag is set a worker is alive: no configuration
\* call and no error inside a tick ends the worker.
C6_MonitoringImpliesLiveWorker == monitoring => LiveWorkers # {}

AlertSteps(w) ==
    /\ (pc[w] = "check" /\ pc'[w] = "entry") =>
           alert_triggered'[w] = MagGreater(processed_data[w].magnitude, threshold)
    /\ (pc[w] = "entry" /\ pc'[w] = "add") =>
           /\ log_entry'[w].alert = alert_triggered[w]
           /\ log_entry'[w].processed_magnitude = processed_data[w].magnitude
    /\ (pc[w] = "alert" /\ pc'[w] = "loop") =>
           /\ alert_triggered[w] = log_entry[w].alert
           /\ IF alert_triggered[w]
              THEN /\ Len(alert_history') = Len(alert_history) + 1
                   /\ alert_history'[Len(alert_history')].magnitude = processed_data[w].magnitude
              ELSE alert_history' = alert_history

\* alert_history grows only in the alert handling of a tick whose flag is set
AlertOnlyFromTick ==
    Len(alert_history') > Len(alert_history) =>
        \E w \in Threads : pc[w] = "alert" /\ pc'[w] = "loop" /\ alert_triggered[w]

\* the Sink grows only in the add_entry call of a tick
SinkOnlyFromTick ==
    Len(sink_records') > Len(sink_records) =>
        \E w \in Threads : pc[w] = "add" /\ pc'[w] # "add"

\* C8 as stated: each completed tick appends exactly one LogRecord to the
\* Sink, and one AlertEvent iff the tick's processed magnitude was strictly
\* greater than the threshold (iff the record's alert flag is true); no
\* AlertEvent exists without such a tick.
C8_TickAppendsExactlyOneRecord ==
    [][ /\ \A w \in Threads :
              /\ AlertSteps(w)
              /\ (pc[w] = "add" /\ pc'[w] = "alert") =>
                     Len(sink_records') = Len(sink_records) + 1
        /\ AlertOnlyFromTick ]_vars

\* what the Sink stores for an entry
stored_form(entry) == IF use_database THEN db_entry(entry) ELSE entry

\* C8 amended: each completed tick passes exactly one LogRecord to add_entry,
\* which appends it to the Sink or, when the database write fails, leaves the
\* Sink unchanged; the tick appends one AlertEvent iff its processed magnitude
\* was strictly greater than the threshold (iff the record's alert flag is
\* true); the Sink and the alert history grow in no other step.
C8_TickHandsOverOneRecord ==
    [][ /\ \A w \in Threads :
              /\ AlertSteps(w)
              /\ (pc[w] = "add" /\ pc'[w] = "alert") =>
                     \/ sink_records' = Append(sink_records, stored_form(log_entry[w]))
                     \/ sink_records' = sink_records
        /\ AlertOnlyFromTick
        /\ SinkOnlyFromTick ]_vars

\* a tick has completed with its record stored, its flag set and its
\* AlertEvent appended
C8_Witness ==
    /\ \E w \in Threads : pc[w] = "loop" /\ log_entry[w] # None /\ log_entry[w].alert
    /\ Len(sink_records) = 1
    /\ sink_records[1].alert
    /\ Len(alert_history) = 1

\* C4: check_threshold returns true exactly when the magnitude is strictly
\* greater than the threshold most recently set by set_threshold: false for
\* every magnitude <= threshold (equality included), true for every magnitude
\* above it.
C4_CheckIsStrict ==
    last.op = "check_threshold" =>
        /\ MagLeq(last.arg, last.threshold_set) => last.ret = FALSE
        /\ MagGreater(last.arg, last.threshold_set) => last.ret = TRUE

\* a check at magnitude = threshold, after set_threshold(3), returned false
C4_Witness ==
    /\ last.op = "check_threshold"
    /\ last.threshold_set = Int2Rat(3)
    /\ last.arg = Sqrt(Int2Rat(9))
    /\ last.ret = FALSE

\* the call recorded in last is an invalid configuration call
InvalidCall ==
    \/ last.op = "set_threshold" /\ ~RLess(Int2Rat(0), last.arg)
    \/ last.op = "set_sensitivity" /\ last.arg \notin SensitivityLevels
    \/ last.op = "set_smoothing_window" /\ last.arg < 1

\* C5: an invalid configuration call is rejected and reported to the caller,
\* and leaves threshold, sensitivity, smoothing_window and the smoothing
\* buffers as they were before the call.
C5_InvalidConfigRejected == InvalidCall => (last.raised /\ ProcSnapshot = last.pre)

\* the samples of old that a buffer of capacity m retains: the most recent
\* min(m, Len(old)), in their order
RetainsMostRecent(old, new, m) ==
    /\ Len(new) = (IF Len(old) < m THEN Len(old) ELSE m)
    /\ \A i \in 1..Len(new) : new[i] = old[Len(old) - Len(new) + i]

\* C9: set_smoothing_window(M), M >= 0, leaves each buffer holding the M most
\* recently appended samples in their original order, and all of them when M
\* is at least the number buffered.
C9_ResizeKeepsMostRecent ==
    (last.op = "set_smoothing_window" /\ last.arg >= 0) =>
        /\ RetainsMostRecent(last.pre.x_buffer.items, x_buffer.items, last.arg)
        /\ RetainsMostRecent(last.pre.y_buffer.items, y_buffer.items, last.arg)
        /\ RetainsMostRecent(last.pre.z_buffer.items, z_buffer.items, last.arg)
        /\ RetainsMostRecent(last.pre.magnitude_buffer.items, magnitude_buffer.items, last.arg)

\* five samples buffered, the last two (distinct from the first two) kept by
\* a resize to 2
C9_Witness ==
    /\ last.op = "set_smoothing_window"
    /\ last.arg = 2
    /\ Len(last.pre.x_buffer.items) = 5
    /\ last.pre.x_buffer.items[1] # last.pre.x_buffer.items[4]
    /\ last.pre.x_buffer.items[4] # last.pre.x_buffer.items[5]
    /\ x_buffer.items = SubSeq(last.pre.x_buffer.items, 4, 5)
    /\ y_buffer.items = SubSeq(last.pre.y_buffer.items, 4, 5)

\* C10: with smoothing_window = 1, apply_smoothing returns its input reading
\* (timestamp, x, y, z, magnitude) whenever the input's magnitude is the norm
\* of its axes, whatever the buffers held before.
C10_WindowOneIsIdentity ==
    ( /\ last.op = "apply_smoothing"
      /\ smoothing_window = 1
      /\ last.arg.magnitude = Norm(last.arg.x, last.arg.y, last.arg.z) )
    => last.ret = last.arg

\* a reading smoothed with window 1 while the buffer held another sample
C10_Witness ==
    /\ last.op = "apply_smoothing"
    /\ smoothing_window = 1
    /\ last.arg.magnitude = Norm(last.arg.x, last.arg.y, last.arg.z)
    /\ last.pre.x_buffer.items # <<>>
    /\ last.pre.x_buffer.items[1] # last.arg.x
    /\ last.ret = last.arg

\* C11: with filter_enabled = false, apply_noise_filter returns its input
\* reading unchanged, whatever the input and the history, and leaves the
\* filter history as it was.
C11_DisabledFilterIsIdentity ==
    (last.op = "apply_noise_filter" /\ ~last.pre.filter_enabled) =>
        /\ last.ret = last.arg
        /\ history_buffer = last.pre.history_buffer

\* a disabled filter called on a history that already holds readings
C11_Witness ==
    /\ last.op = "apply_noise_filter"
    /\ ~last.pre.filter_enabled
    /\ Len(last.pre.history_buffer.items) >= 2
    /\ last.ret = last.arg
    /\ history_buffer = last.pre.history_buffer

\* C12: with the filter enabled, while the history after the append holds
\* fewer than filter_order + 1 = 5 readings, apply_noise_filter returns the raw
\* reading unchanged and the reading is appended to the history; the filter is
\* attempted no earlier than the fifth enabled call after a reset.
C12_ShortHistoryPassthrough ==
    (last.op = "apply_noise_filter" /\ last.pre.filter_enabled) =>
        /\ history_buffer.items = Append(last.pre.history_buffer.items, last.arg)
        /\ (Len(history_buffer.items) < 5 => last.ret = last.arg)

\* the fourth enabled call: four readings in the history, the raw reading returned
C12_Witness ==
    /\ last.op = "apply_noise_filter"
    /\ last.pre.filter_enabled
    /\ Len(history_buffer.items) = 4
    /\ history_buffer.items[4] = last.arg
    /\ last.ret = last.arg

\* the call recorded in last is a process_signal call made with the filter
\* enabled while fewer than 5 readings have entered the history since it was
\* empty
EarlyEnabledTick ==
    /\ last.op = "process_signal"
    /\ last.pre.filter_enabled
    /\ Len(history_buffer.items) < 5

\* C13 as stated: with the filter enabled and fewer than 5 ticks elapsed since
\* the buffers were empty, the result of process_signal equals the raw input
\* reading (stated for the smoothing windows the configuration allows, >= 1).
C13_EarlyTicksReturnRaw ==
    (EarlyEnabledTick /\ last.pre.x_buffer.maxlen >= 1) => last.ret = last.arg

\* C13 amended: with the filter enabled and fewer than 5 ticks elapsed since
\* the buffers were empty, the noise filter passes the raw reading through, so
\* the result of process_signal is the smoothing of the raw reading: its
\* timestamp, the mean of each axis buffer after the raw sample was appended,
\* and the norm of the three means; it equals the raw reading when
\* smoothing_window = 1.
C13_EarlyTicksSmoothRaw ==
    EarlyEnabledTick =>
        /\ x_buffer.items = LastN(Append(last.pre.x_buffer.items, last.arg.x), last.pre.x_buffer.maxlen)
        /\ y_buffer.items = LastN(Append(last.pre.y_buffer.items, last.arg.y), last.pre.y_buffer.maxlen)
        /\ z_buffer.items = LastN(Append(last.pre.z_buffer.items, last.arg.z), last.pre.z_buffer.maxlen)
        /\ last.ret.timestamp = last.arg.timestamp
        /\ last.ret.x = Mean(x_buffer.items)
        /\ last.ret.y = Mean(y_buffer.items)
        /\ last.ret.z = Mean(z_buffer.items)
        /\ last.ret.magnitude = Norm(last.ret.x, last.ret.y, last.ret.z)
        /\ (smoothing_window = 1 => last.ret = last.arg)

\* the second tick after a reset, window 3: the result is the mean of two
\* different readings, not the raw one
C13_Witness ==
    /\ EarlyEnabledTick
    /\ smoothing_window = 3
    /\ Len(history_buffer.items) = 2
    /\ Len(x_buffer.items) = 2
    /\ x_buffer.items[1] # x_buffer.items[2]
    /\ last.ret.x = Mean(x_buffer.items)
    /\ last.ret # last.arg

\* the k-th tick since the buffers were empty has just run, under threshold 2,
\* smoothing window 3 and the filter disabled
ScenarioAfterTick(k) ==
    /\ last.op = "tick"
    /\ ticks = k
    /\ threshold = Int2Rat(2)
    /\ smoothing_window = 3
    /\ last.pre.x_buffer.maxlen = 3
    /\ ~filter_enabled
    /\ Len(x_buffer.items) = k

\* the processed magnitude is the norm of the per-axis means of the readings
\* seen so far
NormOfAxisMeans ==
    last.ret.processed.magnitude =
        Norm(Mean(x_buffer.items), Mean(y_buffer.items), Mean(z_buffer.items))

\* C14 as stated: from empty buffers, threshold 2.0, window 3, filter
\* disabled, three ticks of raw magnitudes 1.0, 2.0, 3.5 give processed
\* magnitudes equal to the norm of the per-axis means of the readings so far
\* and the alert flags false, false, true.
C14_ScenarioAlertsFFT ==
    \A k \in 1..3 :
        ScenarioAfterTick(k) => (NormOfAxisMeans /\ last.ret.alert = (k = 3))

\* the three readings of the scenario point along the positive x axis
SameDirection ==
    /\ x_buffer.items = <<Int2Rat(1), Int2Rat(2), Rat(7, 2)>>
    /\ \A i \in 1..3 : y_buffer.items[i] = Int2Rat(0) /\ z_buffer.items[i] = Int2Rat(0)

\* C14 amended: the processed magnitudes are the norm of the per-axis means of
\* the readings so far; the first two alert flags are false and the third is
\* true exactly when that norm exceeds 2.0, as it does when the three readings
\* point in the same direction.
C14_ScenarioAlertsByNorm ==
    \A k \in 1..3 :
        ScenarioAfterTick(k) =>
            /\ NormOfAxisMeans
            /\ last.ret.alert = MagGreater(last.ret.processed.magnitude, Int2Rat(2))
            /\ (k < 3 => ~last.ret.alert)
            /\ ((k = 3 /\ SameDirection) => last.ret.alert)

\* the third tick with the three readings along one axis: an alert
C14_Witness ==
    /\ ScenarioAfterTick(3)
    /\ SameDirection
    /\ last.ret.alert
    /\ last.ret.processed.magnitude = Sqrt(Rat(169, 36))

\* magnitude ** 2 == x ** 2 + y ** 2 + z ** 2 on the reading's own fields
ReadingConsistent(r) ==
    FloatEq(r.magnitude.sq, RAdd(RAdd(RSquare(r.x), RSquare(r.y)), RSquare(r.z)))

\* C15: every Reading a stage produces (get_vibration_reading,
\* apply_noise_filter, apply_smoothing at the end of process_signal) satisfies
\* magnitude^2 == x^2 + y^2 + z^2 on its own x, y, z, after any sequence of
\* calls and configuration changes.
C15_MagnitudeIsNormOfAxes ==
    last.op \in {"get_vibration_reading", "apply_noise_filter", "process_signal"} =>
        ReadingConsistent(last.ret)

\* what get_recent_data hands back for a stored record
returned_form(stored) == IF use_database THEN record_dict(stored) ELSE stored

EntryBuilt(w) == pc[w] \in {"add", "alert"}

\* C17: configuration is read once per tick: every emitted LogRecord has
\* alert == (processed_magnitude > threshold_used), its sensitivity_level is
\* the level that scaled the tick's raw reading, and its filter_enabled tells
\* whether the tick's raw reading went through the filter (entered the filter
\* history), also when setters run during the tick (stated for the sensitivity
\* levels the configuration allows).
C17_RecordMatchesConfigUsed ==
    \A w \in Threads :
        (EntryBuilt(w) /\ sensitivity \in SensitivityLevels) =>
            /\ log_entry[w].alert =
                   MagGreater(log_entry[w].processed_magnitude, log_entry[w].threshold_used)
            /\ log_entry[w].sensitivity_level \in DOMAIN sensitivity_multipliers
            /\ \E sample \in SourceSamples :
                   raw_data[w] = get_vibration_reading(sample, log_entry[w].sensitivity_level,
                                                       raw_data[w].timestamp)
            /\ log_entry[w].filter_enabled =
                   (\E i \in 1..Len(history_buffer.items) : history_buffer.items[i] = raw_data[w])

\* no apply_smoothing call is between its appends and no set_smoothing_window
\* call is in progress
Quiescent ==
    /\ setter.pc = "idle"
    /\ \A w \in Threads : pc[w] \notin {"append_x", "append_y", "append_z"}

\* buffer dq ends with sample v, unless its capacity is 0
EndsWith(dq, v) ==
    dq.maxlen >= 1 => (dq.items # <<>> /\ dq.items[Len(dq.items)] = v)

\* C18: the smoothing buffers are modified only by the worker: under any
\* interleaving of a tick with set_smoothing_window from the control thread,
\* once both are done no sample the worker appended is lost (each buffer ends
\* with the latest sample appended to it) and the x, y and z buffers hold the
\* same number of samples.
C18_BuffersOwnedByWorker ==
    Quiescent =>
        /\ Len(x_buffer.items) = Len(y_buffer.items)
        /\ Len(y_buffer.items) = Len(z_buffer.items)
        /\ \A w \in Threads :
               filtered_data[w] # None =>
                   /\ EndsWith(x_buffer, filtered_data[w].x)
                   /\ EndsWith(y_buffer, filtered_data[w].y)
                   /\ EndsWith(z_buffer, filtered_data[w].z)

\* the call recorded in last is an apply_noise_filter call whose filtering
\* step failed: the try block was reached and filtfilt raised
FilteringFailed ==
    /\ last.op = "apply_noise_filter"
    /\ last.pre.filter_enabled
    /\ Len(history_buffer.items) >= 5
    /\ filtfilt_raises(history_buffer.items)

\* C19: apply_noise_filter never propagates an error; when the zero-phase
\* filtering step fails (too few buffered samples for its edge padding) the
\* call returns the raw input reading unchanged, the reading still appended to
\* the history.
C19_FilterFailureFallsBack ==
    /\ last.op = "apply_noise_filter" => ~last.raised
    /\ FilteringFailed =>
           /\ last.ret = last.arg
           /\ history_buffer.items = Append(last.pre.history_buffer.items, last.arg)

\* the fifth enabled call: filtfilt is attempted on five readings and fails
C19_Witness ==
    /\ FilteringFailed
    /\ Len(history_buffer.items) = 5
    /\ ~last.raised
    /\ last.ret = last.arg
    /\ history_buffer.items[5] = last.arg

\* the contents of buffer old are kept in new, which ends with one more sample
\* (the oldest sample leaves a full buffer)
KeptAndExtended(old, new) ==
    /\ new.items # <<>>
    /\ SubSeq(new.items, 1, Len(new.items) - 1) = LastN(old.items, old.maxlen - 1)

\* C20: stop_monitoring followed by start_monitoring resumes with the existing
\* state: neither call changes the filter history or the smoothing buffers,
\* and every tick, the first after a restart included, filters and smooths
\* its reading together with the samples already buffered.
C20_RestartKeepsBuffers ==
    [][ /\ (monitoring' # monitoring \/ spawned' # spawned) =>
               UNCHANGED <<history_buffer, x_buffer, y_buffer, z_buffer, magnitude_buffer>>
        /\ \A w \in Threads :
               (pc[w] = "process" /\ pc'[w] = "check") =>
                   /\ KeptAndExtended(x_buffer, x_buffer')
                   /\ KeptAndExtended(y_buffer, y_buffer')
                   /\ KeptAndExtended(z_buffer, z_buffer')
                   /\ (filter_enabled => KeptAndExtended(history_buffer, history_buffer'))
                   /\ processed_data'[w].x = Mean(x_buffer'.items) ]_vars

\* the first worker has ended after a stop, and the first tick of the second
\* worker was smoothed together with the sample buffered before the stop
C20_Witness ==
    /\ spawned = 2
    /\ pc[1] = "done"
    /\ pc[2] = "check"
    /\ Len(x_buffer.items) = 2
    /\ Len(history_buffer.items) = 2
    /\ x_buffer.items[1] # x_buffer.items[2]
    /\ processed_data[2].x = Mean(x_buffer.items)

====
